---------------------------- MODULE Spec2Model ----------------------------
(* State-machine model of the resilient quote fetcher of server.go:        *)
(* ApiCotacaoFetcher.Fetch with its retry loop, incrementFailureCount and  *)
(* resetCircuit, run by several concurrent callers on one instance, each   *)
(* caller being one request served by Server.cotacaoHandler.               *)
EXTENDS Integers, Naturals, Sequences, FiniteSets, TLC

(* ------------------------------ bounds -------------------------------- *)
NumCallers == 2
MaxRetry == 1
MaxThreshold == 2
MaxCooldown == 2
MaxTime == 2
\* number of Fetch invocations started in one behaviour
MaxCalls == 2

Callers == 1 .. NumCallers

(* ----------------------- values of the program ------------------------ *)
\* fallbackValue passed by main to NewApiCotacaoFetcher
FallbackValue == "1.00"
\* bid strings the upstream may quote
Bids == {"5.43"}
\* the zero value of time.Time (lastAttemptTime before any write)
ZeroTime == -1
\* time.Since saturates at the largest Duration for the zero time
MaxDuration == 1000
\* the zero value of string (Cotacao{}.Bid of a missing map key)
EmptyString == ""
NoError == "nil"
\* errors of client.Do that come with a nil *http.Response
NilRespErrors == {"ErrTransport", "ErrContext"}
\* error of client.Do that comes with a non-nil response (CheckRedirect failed)
RedirectError == "ErrRedirect"
DecodeError == "ErrDecode"
RequestError == "ErrRequest"
TransportErrors == NilRespErrors \cup {RedirectError}
\* error returned by CotacaoRepository.Save (the insert failed or timed out)
PersistError == "ErrPersist"
SaveErrors == {NoError, PersistError}
\* statuses and bodies written by cotacaoHandler
StatusOK == 200
StatusInternalServerError == 500
\* http.Error writes its message as plain text
FetchFailedBody == <<"text", "Failed to fetch cotacao">>
SaveFailedBody == <<"text", "Failed to save cotacao">>
\* json.NewEncoder(w).Encode of the map {"Cotacao": cotacao}: a JSON object
\* with the one field Cotacao holding the string as it is
EncodeResponse(cotacao) == <<"json", "Cotacao", cotacao>>

\* response bodies: not JSON, a JSON object whose bid has a wrong type,
\* and JSON objects mapping pair names to {"bid": <string>}
Bodies ==
    {[kind |-> "garbage", pairs |-> {}], [kind |-> "badtype", pairs |-> {}],
     [kind |-> "object", pairs |-> {}]}
    \cup {[kind |-> "object", pairs |-> {<<"USDBRL", b>>}] : b \in Bids}
    \cup {[kind |-> "object", pairs |-> {<<"EURBRL", b>>}] : b \in Bids}

\* outcomes of client.Do(req): (resp, err)
Responses ==
    {[err |-> e, hasResp |-> FALSE, status |-> 0,
      body |-> [kind |-> "garbage", pairs |-> {}]] : e \in NilRespErrors}
    \cup {[err |-> RedirectError, hasResp |-> TRUE, status |-> 302,
           body |-> [kind |-> "garbage", pairs |-> {}]]}
    \cup {[err |-> NoError, hasResp |-> TRUE, status |-> s, body |-> b] :
             s \in {200, 500}, b \in Bodies}

VARIABLES
    \* configuration fields of ApiCotacaoFetcher
    retry, failureThreshold, circuitResetTime,
    \* breaker fields of ApiCotacaoFetcher
    failureCount, circuitOpen, lastAttemptTime, circuitMutex,
    \* the clock read by time.Now / time.Since
    now,
    \* per caller: position in Fetch and its locals
    pc, reqOk, i, lastErr, bid, ret, pendT,
    \* per caller: what this invocation did (observation only)
    attempts, lastFail, decoded, branch, obs,
    \* per caller: the handler's calls of Save and the response it wrote
    saved, response,
    \* observation of the instance
    calls, consecFails, openedAt, lastOp, failedSince

cfgVars == <<retry, failureThreshold, circuitResetTime>>
brkVars == <<failureCount, circuitOpen, lastAttemptTime>>
locVars == <<reqOk, i, lastErr, bid, ret, pendT>>
histVars == <<attempts, lastFail, decoded, branch, obs>>
insVars == <<calls, consecFails, openedAt, lastOp>>
hdlVars == <<saved, response>>
vars == <<cfgVars, brkVars, circuitMutex, now, pc, locVars, histVars, insVars,
          hdlVars, failedSince>>

(* --------------------------- pure helpers ----------------------------- *)
\* time.Since(t)
Since(t) == IF t = ZeroTime THEN MaxDuration ELSE now - t

\* json.NewDecoder(resp.Body).Decode(&result) into map[string]Cotacao
Decode(body) ==
    IF body.kind = "object"
    THEN [err |-> NoError, result |-> body.pairs]
    ELSE [err |-> DecodeError, result |-> {}]

\* result["USDBRL"].Bid : the zero Cotacao for a missing key
BidOf(result) ==
    IF \E p \in result : p[1] = "USDBRL"
    THEN (CHOOSE p \in result : p[1] = "USDBRL")[2]
    ELSE EmptyString

\* variant of the test of line 47 that stops bypassing one tick early
ShouldBypassOffByOne(open, since) == open /\ since + 1 < circuitResetTime

\* line 47: f.circuitOpen && time.Since(f.lastAttemptTime) < f.circuitResetTime
ShouldBypass(open, since) == open /\ since < circuitResetTime

\* line 51: f.circuitOpen && time.Since(f.lastAttemptTime) >= f.circuitResetTime
CooldownElapsed(open, since) == open /\ since >= circuitResetTime

\* variant of incrementFailureCount that opens one failure early
IncrementFailureCountEarly(count, open) ==
    [count |-> count + 1,
     open |-> IF count + 1 >= failureThreshold - 1 THEN TRUE ELSE open]

\* incrementFailureCount, on the pair (failureCount, circuitOpen)
IncrementFailureCount(count, open) ==
    [count |-> count + 1,
     open |-> IF count + 1 >= failureThreshold THEN TRUE ELSE open]

\* variant of resetCircuit that clears the count but keeps the open flag
ResetCircuitCountOnly(count, open) == [count |-> 0, open |-> open]

\* resetCircuit, on the pair (failureCount, circuitOpen)
ResetCircuit(count, open) == [count |-> 0, open |-> FALSE]

\* the for statement of line 59: the loop body runs while i <= f.retry
LoopHead(k) == IF k <= retry THEN "request" ELSE "exhaust"

\* line 50: return f.fallbackValue, nil
BypassReturn == [value |-> FallbackValue, err |-> NoError]
\* variant of the return of line 83 that hands back the fallback value
SuccessReturnFallback(b) == [value |-> FallbackValue, err |-> NoError]
\* line 83: return result["USDBRL"].Bid, nil
SuccessReturn(b) == [value |-> b, err |-> NoError]
\* line 88: return f.fallbackValue, lastErr
ExhaustReturn(e) == [value |-> FallbackValue, err |-> e]
\* line 62: return "", err
RequestErrorReturn == [value |-> EmptyString, err |-> RequestError]
\* the results of an invocation that has not returned
NoReturn == [value |-> EmptyString, err |-> NoError]

\* a response that carries a quote: 2xx status and a USDBRL bid string
ValidQuote(resp) ==
    /\ resp.err = NoError
    /\ resp.status = 200
    /\ resp.body.kind = "object"
    /\ \E p \in resp.body.pairs : p[1] = "USDBRL"

\* values a read of lastAttemptTime can produce: the stored value, or, while
\* another caller is inside the unlocked store of line 86, any torn value
TimeReads(c) ==
    IF \E d \in Callers \ {c} : pc[d] = "writing"
    THEN {ZeroTime} \cup (0 .. now)
    ELSE {lastAttemptTime}

\* observation records: what the bypass test saw, the response an invocation
\* decoded, and the last change of the breaker
NoObs == [open |-> FALSE, elapsed |-> FALSE]
NoDecoded == [at |-> 0, status |-> 0, pairs |-> {}]
NoOp == [op |-> "none", wasOpen |-> FALSE]
\* the handler has written nothing to the http.ResponseWriter
NoResponse == [status |-> 0, body |-> <<>>]

\* variant of the handler's answer that drops the error of Save
HandlerResponseAbsorbsSaveError(fetchErr, saveErr, cotacao) ==
    IF fetchErr # NoError
    THEN [status |-> StatusInternalServerError, body |-> FetchFailedBody]
    ELSE [status |-> StatusOK, body |-> EncodeResponse(cotacao)]

\* lines 139-155: what cotacaoHandler writes, from the error of Fetch, the
\* error of Save and the value of Fetch
HandlerResponse(fetchErr, saveErr, cotacao) ==
    IF fetchErr # NoError
    THEN [status |-> StatusInternalServerError, body |-> FetchFailedBody]
    ELSE IF saveErr # NoError
    THEN [status |-> StatusInternalServerError, body |-> SaveFailedBody]
    ELSE [status |-> StatusOK, body |-> EncodeResponse(cotacao)]

(* ------------------------------- Init --------------------------------- *)
Init ==
    /\ retry \in 0 .. MaxRetry
    /\ failureThreshold \in 1 .. MaxThreshold
    /\ circuitResetTime \in 1 .. MaxCooldown
    /\ failureCount = 0
    /\ circuitOpen = FALSE
    /\ lastAttemptTime = ZeroTime
    /\ circuitMutex = 0
    /\ now = 0
    /\ pc = [c \in Callers |-> "idle"]
    /\ reqOk = [c \in Callers |-> TRUE]
    /\ i = [c \in Callers |-> 0]
    /\ lastErr = [c \in Callers |-> NoError]
    /\ bid = [c \in Callers |-> EmptyString]
    /\ ret = [c \in Callers |-> NoReturn]
    /\ pendT = [c \in Callers |-> ZeroTime]
    /\ attempts = [c \in Callers |-> 0]
    /\ lastFail = [c \in Callers |-> NoError]
    /\ decoded = [c \in Callers |-> NoDecoded]
    /\ branch = [c \in Callers |-> "none"]
    /\ obs = [c \in Callers |-> NoObs]
    /\ calls = 0
    /\ consecFails = 0
    /\ openedAt = ZeroTime
    /\ lastOp = NoOp
    /\ saved = [c \in Callers |-> <<>>]
    /\ response = [c \in Callers |-> NoResponse]
    /\ failedSince = 0

(* ------------------------------ actions ------------------------------- *)
\* the clock advances
Tick ==
    /\ now < MaxTime
    /\ now' = now + 1
    /\ UNCHANGED <<cfgVars, brkVars, circuitMutex, pc, locVars, histVars,
                   insVars, hdlVars, failedSince>>

\* lines 135-138 and 46: the handler of a new request calls Fetch with a
\* context for which http.NewRequestWithContext will succeed (ok) or fail,
\* and Fetch takes the mutex; the caller's previous request has been answered
\* or has panicked
FetchLock(c, ok) ==
    /\ pc[c] \in {"idle", "done", "panicked"}
    /\ pc[c] = "done" => response[c] # NoResponse
    /\ saved' = [saved EXCEPT ![c] = <<>>]
    /\ response' = [response EXCEPT ![c] = NoResponse]
    /\ calls < MaxCalls
    /\ calls' = calls + 1
    /\ circuitMutex = 0
    /\ circuitMutex' = c
    /\ pc' = [pc EXCEPT ![c] = "check"]
    /\ reqOk' = [reqOk EXCEPT ![c] = ok]
    /\ ret' = [ret EXCEPT ![c] = NoReturn]
    /\ attempts' = [attempts EXCEPT ![c] = 0]
    /\ lastFail' = [lastFail EXCEPT ![c] = NoError]
    /\ decoded' = [decoded EXCEPT ![c] = NoDecoded]
    /\ branch' = [branch EXCEPT ![c] = "none"]
    /\ obs' = [obs EXCEPT ![c] = NoObs]
    /\ UNCHANGED <<cfgVars, brkVars, now, i, lastErr, bid, pendT,
                   consecFails, openedAt, lastOp, failedSince>>

\* variant of lines 47-50 in which a bypassed call stamps lastAttemptTime,
\* restarting the cooldown
FetchCheckOpenRestartsCooldown(c) ==
    /\ pc[c] = "check"
    /\ circuitMutex = c
    /\ \E t \in TimeReads(c) :
         /\ obs' = [obs EXCEPT ![c] =
                [open |-> circuitOpen,
                 elapsed |-> ~(Since(t) < circuitResetTime)]]
         /\ IF ShouldBypass(circuitOpen, Since(t))
            THEN /\ circuitMutex' = 0
                 /\ pc' = [pc EXCEPT ![c] = "done"]
                 /\ ret' = [ret EXCEPT ![c] = BypassReturn]
                 /\ branch' = [branch EXCEPT ![c] = "bypass"]
                 /\ lastAttemptTime' = now
            ELSE /\ pc' = [pc EXCEPT ![c] = "check2"]
                 /\ UNCHANGED <<circuitMutex, ret, branch, lastAttemptTime>>
    /\ UNCHANGED <<cfgVars, failureCount, circuitOpen, now, reqOk, i, lastErr, bid, pendT,
                   attempts, lastFail, decoded, insVars, hdlVars, failedSince>>

\* lines 47-50: the bypass test; on bypass unlock and return the fallback
FetchCheckOpen(c) ==
    /\ pc[c] = "check"
    /\ circuitMutex = c
    /\ \E t \in TimeReads(c) :
         /\ obs' = [obs EXCEPT ![c] =
                [open |-> circuitOpen,
                 elapsed |-> ~(Since(t) < circuitResetTime)]]
         /\ IF ShouldBypass(circuitOpen, Since(t))
            THEN /\ circuitMutex' = 0
                 /\ pc' = [pc EXCEPT ![c] = "done"]
                 /\ ret' = [ret EXCEPT ![c] = BypassReturn]
                 /\ branch' = [branch EXCEPT ![c] = "bypass"]
            ELSE /\ pc' = [pc EXCEPT ![c] = "check2"]
                 /\ UNCHANGED <<circuitMutex, ret, branch>>
    /\ UNCHANGED <<cfgVars, brkVars, now, reqOk, i, lastErr, bid, pendT,
                   attempts, lastFail, decoded, insVars, hdlVars, failedSince>>

\* variant of lines 51-59 without the Unlock of line 56: the retry loop is
\* entered with the mutex still held
FetchCheckResetKeepsLock(c) ==
    /\ pc[c] = "check2"
    /\ circuitMutex = c
    /\ \E t \in TimeReads(c) :
         IF CooldownElapsed(circuitOpen, Since(t))
         THEN /\ circuitOpen' = FALSE
              /\ failureCount' = 0
              /\ consecFails' = 0
              /\ failedSince' = 0
              /\ lastOp' = [op |-> "cooldown", wasOpen |-> circuitOpen]
              /\ branch' = [branch EXCEPT ![c] = "trial"]
         ELSE /\ UNCHANGED <<circuitOpen, failureCount, consecFails, lastOp,
                             failedSince>>
              /\ branch' = [branch EXCEPT ![c] = "pass"]
    /\ circuitMutex' = c
    /\ i' = [i EXCEPT ![c] = 0]
    /\ pc' = [pc EXCEPT ![c] = LoopHead(0)]
    /\ UNCHANGED <<cfgVars, lastAttemptTime, now, reqOk, lastErr, bid, ret,
                   pendT, attempts, lastFail, decoded, obs, calls, openedAt,
                   hdlVars>>

\* lines 51-56: the cooldown test, the reset after cooldown, and the unlock;
\* then line 59: i := 0 and the loop test
FetchCheckReset(c) ==
    /\ pc[c] = "check2"
    /\ circuitMutex = c
    /\ \E t \in TimeReads(c) :
         IF CooldownElapsed(circuitOpen, Since(t))
         THEN /\ circuitOpen' = FALSE
              /\ failureCount' = 0
              /\ consecFails' = 0
              /\ failedSince' = 0
              /\ lastOp' = [op |-> "cooldown", wasOpen |-> circuitOpen]
              /\ branch' = [branch EXCEPT ![c] = "trial"]
         ELSE /\ UNCHANGED <<circuitOpen, failureCount, consecFails, lastOp,
                             failedSince>>
              /\ branch' = [branch EXCEPT ![c] = "pass"]
    /\ circuitMutex' = 0
    /\ i' = [i EXCEPT ![c] = 0]
    /\ pc' = [pc EXCEPT ![c] = LoopHead(0)]
    /\ UNCHANGED <<cfgVars, lastAttemptTime, now, reqOk, lastErr, bid, ret,
                   pendT, attempts, lastFail, decoded, obs, calls, openedAt,
                   hdlVars>>

\* lines 60-66: build the request (line 62 returns "", err when that fails)
\* and send it
SendRequest(c) ==
    /\ pc[c] = "request"
    /\ IF reqOk[c]
       THEN /\ pc' = [pc EXCEPT ![c] = "inflight"]
            /\ attempts' = [attempts EXCEPT ![c] = @ + 1]
            /\ UNCHANGED <<ret, i, lastErr>>
       ELSE /\ pc' = [pc EXCEPT ![c] = "done"]
            /\ ret' = [ret EXCEPT ![c] = RequestErrorReturn]
            /\ i' = [i EXCEPT ![c] = 0]
            /\ lastErr' = [lastErr EXCEPT ![c] = NoError]
            /\ UNCHANGED attempts
    /\ UNCHANGED <<cfgVars, brkVars, circuitMutex, now, reqOk, bid, pendT,
                   lastFail, decoded, branch, obs, insVars, hdlVars,
                   failedSince>>

\* lines 66-81: client.Do returns (resp, err); the error and decode branches
\* up to the call of incrementFailureCount or resetCircuit. The log statement
\* of line 69 dereferences resp, which is nil unless CheckRedirect failed:
\* the goroutine panics and Fetch does not return.
ReceiveResponse(c, resp) ==
    /\ pc[c] = "inflight"
    /\ consecFails' = IF ValidQuote(resp) THEN 0
                      ELSE IF consecFails < failureThreshold
                           THEN consecFails + 1 ELSE consecFails
    /\ failedSince' = IF ValidQuote(resp) THEN failedSince
                      ELSE failedSince + 1
    /\ IF resp.err # NoError
       THEN /\ lastFail' = [lastFail EXCEPT ![c] = resp.err]
            /\ IF resp.hasResp
               THEN /\ pc' = [pc EXCEPT ![c] = "incWait"]
                    /\ lastErr' = [lastErr EXCEPT ![c] = resp.err]
                    /\ UNCHANGED i
               ELSE /\ pc' = [pc EXCEPT ![c] = "panicked"]
                    /\ lastErr' = [lastErr EXCEPT ![c] = NoError]
                    /\ i' = [i EXCEPT ![c] = 0]
            /\ UNCHANGED <<bid, decoded>>
       ELSE IF Decode(resp.body).err # NoError
       THEN /\ lastErr' = [lastErr EXCEPT ![c] = Decode(resp.body).err]
            /\ lastFail' = [lastFail EXCEPT ![c] = Decode(resp.body).err]
            /\ pc' = [pc EXCEPT ![c] = "incWait"]
            /\ UNCHANGED <<bid, i, decoded>>
       ELSE /\ bid' = [bid EXCEPT ![c] = BidOf(Decode(resp.body).result)]
            /\ decoded' = [decoded EXCEPT ![c] =
                   [at |-> attempts[c], status |-> resp.status,
                    pairs |-> resp.body.pairs]]
            /\ pc' = [pc EXCEPT ![c] = "resetWait"]
            /\ UNCHANGED <<lastErr, lastFail, i>>
    /\ UNCHANGED <<cfgVars, brkVars, circuitMutex, now, reqOk, ret, pendT,
                   attempts, branch, obs, calls, openedAt, lastOp, hdlVars>>

\* line 92: incrementFailureCount takes the mutex
IncrementLock(c) ==
    /\ pc[c] = "incWait"
    /\ circuitMutex = 0
    /\ circuitMutex' = c
    /\ pc' = [pc EXCEPT ![c] = "incHeld"]
    /\ UNCHANGED <<cfgVars, brkVars, now, locVars, histVars, insVars,
                   hdlVars, failedSince>>

\* lines 93-99, then continue: i++ and the loop test of line 59
IncrementBody(c) ==
    /\ pc[c] = "incHeld"
    /\ circuitMutex = c
    /\ failureCount' = IncrementFailureCount(failureCount, circuitOpen).count
    /\ circuitOpen' = IncrementFailureCount(failureCount, circuitOpen).open
    /\ openedAt' = IF ~circuitOpen /\ circuitOpen' THEN now ELSE openedAt
    /\ lastOp' = [op |-> "increment", wasOpen |-> circuitOpen]
    /\ circuitMutex' = 0
    /\ i' = [i EXCEPT ![c] = @ + 1]
    /\ pc' = [pc EXCEPT ![c] = LoopHead(i[c] + 1)]
    /\ UNCHANGED <<cfgVars, lastAttemptTime, now, reqOk, lastErr, bid, ret,
                   pendT, histVars, calls, consecFails, hdlVars, failedSince>>

\* line 102: resetCircuit takes the mutex
ResetLock(c) ==
    /\ pc[c] = "resetWait"
    /\ circuitMutex = 0
    /\ circuitMutex' = c
    /\ pc' = [pc EXCEPT ![c] = "resetHeld"]
    /\ UNCHANGED <<cfgVars, brkVars, now, locVars, histVars, insVars,
                   hdlVars, failedSince>>

\* lines 103-106, then line 83: return result["USDBRL"].Bid, nil
ResetBody(c) ==
    /\ pc[c] = "resetHeld"
    /\ circuitMutex = c
    /\ failureCount' = ResetCircuit(failureCount, circuitOpen).count
    /\ circuitOpen' = ResetCircuit(failureCount, circuitOpen).open
    /\ circuitMutex' = 0
    /\ ret' = [ret EXCEPT ![c] = SuccessReturn(bid[c])]
    /\ pc' = [pc EXCEPT ![c] = "done"]
    /\ i' = [i EXCEPT ![c] = 0]
    /\ lastErr' = [lastErr EXCEPT ![c] = NoError]
    /\ bid' = [bid EXCEPT ![c] = EmptyString]
    /\ lastOp' = [op |-> "reset", wasOpen |-> circuitOpen]
    /\ failedSince' = 0
    /\ UNCHANGED <<cfgVars, lastAttemptTime, now, reqOk, pendT, histVars,
                   calls, consecFails, openedAt, hdlVars>>

\* line 86: time.Now() is read and the store to lastAttemptTime begins,
\* without the mutex
ExhaustBegin(c) ==
    /\ pc[c] = "exhaust"
    /\ pendT' = [pendT EXCEPT ![c] = now]
    /\ pc' = [pc EXCEPT ![c] = "writing"]
    /\ UNCHANGED <<cfgVars, brkVars, circuitMutex, now, reqOk, i, lastErr,
                   bid, ret, histVars, insVars, hdlVars, failedSince>>

\* lines 86-88: the store completes; return f.fallbackValue, lastErr
ExhaustEnd(c) ==
    /\ pc[c] = "writing"
    /\ lastAttemptTime' = pendT[c]
    /\ ret' = [ret EXCEPT ![c] = ExhaustReturn(lastErr[c])]
    /\ pc' = [pc EXCEPT ![c] = "done"]
    /\ i' = [i EXCEPT ![c] = 0]
    /\ lastErr' = [lastErr EXCEPT ![c] = NoError]
    /\ pendT' = [pendT EXCEPT ![c] = ZeroTime]
    /\ UNCHANGED <<cfgVars, failureCount, circuitOpen, circuitMutex, now,
                   reqOk, bid, histVars, insVars, hdlVars, failedSince>>

\* lines 139-143: Fetch returned an error; the handler answers 500 and
\* returns without calling Save
HandlerFetchError(c) ==
    /\ pc[c] = "done"
    /\ response[c] = NoResponse
    /\ ret[c].err # NoError
    /\ response' = [response EXCEPT ![c] =
           HandlerResponse(ret[c].err, NoError, ret[c].value)]
    /\ UNCHANGED <<cfgVars, brkVars, circuitMutex, now, pc, locVars, histVars,
                   insVars, saved, failedSince>>

\* variant of lines 145-155 that counts an error of Save as a failure of the
\* breaker
HandlerSaveCountsFailure(c, err) ==
    /\ pc[c] = "done"
    /\ response[c] = NoResponse
    /\ ret[c].err = NoError
    /\ saved' = [saved EXCEPT ![c] =
           Append(@, [bid |-> ret[c].value, err |-> err])]
    /\ response' = [response EXCEPT ![c] =
           HandlerResponse(ret[c].err, err, ret[c].value)]
    /\ failureCount' = IF err # NoError THEN failureCount + 1
                       ELSE failureCount
    /\ circuitOpen' = IF err # NoError /\ failureCount + 1 >= failureThreshold
                      THEN TRUE ELSE circuitOpen
    /\ UNCHANGED <<cfgVars, lastAttemptTime, circuitMutex, now, pc, locVars,
                   histVars, insVars, failedSince>>

\* lines 145-155: Fetch returned no error; the handler calls Save with the
\* value of Fetch, Save (lines 120-123) runs the insert and returns err, and
\* the handler answers 500 on an error and the JSON body otherwise
HandlerSave(c, err) ==
    /\ pc[c] = "done"
    /\ response[c] = NoResponse
    /\ ret[c].err = NoError
    /\ saved' = [saved EXCEPT ![c] =
           Append(@, [bid |-> ret[c].value, err |-> err])]
    /\ response' = [response EXCEPT ![c] =
           HandlerResponse(ret[c].err, err, ret[c].value)]
    /\ UNCHANGED <<cfgVars, brkVars, circuitMutex, now, pc, locVars, histVars,
                   insVars, failedSince>>

Next ==
    \/ Tick
    \/ \E c \in Callers : \E ok \in BOOLEAN : FetchLock(c, ok)
    \/ \E c \in Callers : FetchCheckOpen(c)
    \/ \E c \in Callers : FetchCheckReset(c)
    \/ \E c \in Callers : SendRequest(c)
    \/ \E c \in Callers : \E resp \in Responses : ReceiveResponse(c, resp)
    \/ \E c \in Callers : IncrementLock(c)
    \/ \E c \in Callers : IncrementBody(c)
    \/ \E c \in Callers : ResetLock(c)
    \/ \E c \in Callers : ResetBody(c)
    \/ \E c \in Callers : ExhaustBegin(c)
    \/ \E c \in Callers : ExhaustEnd(c)
    \/ \E c \in Callers : HandlerFetchError(c)
    \/ \E c \in Callers : \E err \in SaveErrors : HandlerSave(c, err)

Spec == Init /\ [][Next]_vars

\* a step of caller c's goroutine that does not wait for anything: the code
\* between two blocking points runs on, and client.Do returns (the handler's
\* context bounds every upstream call by 200 ms)
Runs(c) ==
    \/ FetchCheckOpen(c)
    \/ FetchCheckReset(c)
    \/ SendRequest(c)
    \/ \E resp \in Responses : ReceiveResponse(c, resp)
    \/ IncrementBody(c)
    \/ ResetBody(c)
    \/ ExhaustBegin(c)
    \/ ExhaustEnd(c)

\* the scheduler runs every goroutine that can run, and sync.Mutex hands the
\* mutex to a goroutine that keeps waiting for it (starvation mode)
LiveSpec ==
    /\ Spec
    /\ \A c \in Callers :
         /\ WF_vars(Runs(c))
         /\ SF_vars(IncrementLock(c))
         /\ SF_vars(ResetLock(c))

(* ------------------------------ claims -------------------------------- *)
\* an invocation that has ended, by a return or by a panic
Ended(c) == pc[c] \in {"done", "panicked"}
\* no invocation is between its entry and its end
Quiescent == \A c \in Callers : pc[c] \in {"idle", "done", "panicked"}
\* the step in which caller c performs the test of line 47
ChecksOpen(c) == pc[c] = "check" /\ pc'[c] # "check"
\* the step in which caller c performs the test of line 51 and unlocks
ChecksReset(c) == pc[c] = "check2" /\ pc'[c] # "check2"

\* C1: once failureThreshold upstream attempts have failed in a row (no
\* success, no cooldown reset between them) and the calls have ended, the
\* breaker is open; and a call that tests the breaker after such a run, less
\* than the cooldown after the breaker opened, returns the fallback with nil
\* error and no upstream attempt.
C1_FailuresOpenBreaker ==
    /\ [](Quiescent /\ consecFails >= failureThreshold => circuitOpen)
    /\ [][\A c \in Callers :
            (/\ ChecksOpen(c)
             /\ circuitOpen
             /\ consecFails >= failureThreshold
             /\ Since(openedAt) < circuitResetTime)
            => /\ pc'[c] = "done"
               /\ ret'[c] = [value |-> FallbackValue, err |-> NoError]
               /\ attempts'[c] = 0]_vars

\* C2: a call whose test of line 47 found the breaker open and the cooldown
\* not yet elapsed has returned (fallbackValue, nil) and made no upstream call.
C2_BypassReturnsFallback ==
    \A c \in Callers :
        (obs[c].open /\ ~obs[c].elapsed)
        => /\ pc[c] = "done"
           /\ branch[c] = "bypass"
           /\ ret[c] = [value |-> FallbackValue, err |-> NoError]
           /\ attempts[c] = 0

\* C2 witness: a call has been bypassed by an open breaker within the cooldown
C2_Witness ==
    \E c \in Callers :
        /\ obs[c].open /\ ~obs[c].elapsed
        /\ pc[c] = "done" /\ branch[c] = "bypass"
        /\ lastAttemptTime # ZeroTime

\* C3: a call that tests the breaker when it is open and the cooldown has
\* elapsed since the breaker opened is not bypassed; it closes the breaker,
\* sets failureCount to 0 and enters the retry loop to attempt the upstream.
C3_TrialAfterCooldown ==
    [][\A c \in Callers :
         /\ (ChecksOpen(c) /\ circuitOpen
                /\ Since(openedAt) >= circuitResetTime)
            => pc'[c] = "check2"
         /\ (ChecksReset(c) /\ circuitOpen
                /\ Since(openedAt) >= circuitResetTime)
            => (~circuitOpen' /\ failureCount' = 0 /\ pc'[c] = "request")]_vars

\* C4: a call that was not bypassed and whose request can be built never makes
\* more than retry+1 upstream attempts, and when it has ended with fewer than
\* retry+1 attempts one of them succeeded; so with retry = 0 it made exactly one.
C4_AttemptBound ==
    \A c \in Callers :
        /\ attempts[c] <= retry + 1
        /\ (Ended(c) /\ branch[c] \in {"trial", "pass"} /\ reqOk[c]
               /\ attempts[c] < retry + 1)
           => decoded[c] # NoDecoded

\* C5: when the first successfully decoded response of a call arrived on
\* attempt k, the call makes no further attempt (k upstream calls in all) and
\* returns (the USDBRL bid of that response, nil).
C5_FirstSuccessReturnsBid ==
    \A c \in Callers :
        decoded[c] # NoDecoded
        => /\ pc[c] \in {"resetWait", "resetHeld", "done"}
           /\ attempts[c] = decoded[c].at
           /\ pc[c] = "done"
              => /\ ret[c].err = NoError
                 /\ \/ <<"USDBRL", ret[c].value>> \in decoded[c].pairs
                    \/ /\ ret[c].value = EmptyString
                       /\ ~\E p \in decoded[c].pairs : p[1] = "USDBRL"

\* C5 witness: a call returned the quoted bid after one failed attempt and a
\* success on attempt 2
C5_Witness ==
    \E c \in Callers :
        /\ pc[c] = "done" /\ decoded[c].at = 2 /\ attempts[c] = 2
        /\ lastFail[c] # NoError
        /\ ret[c] = [value |-> "5.43", err |-> NoError]

\* C6: the step that records a success (resetCircuit) leaves the breaker
\* closed with failureCount = 0, whatever the count and the open flag were.
C6_SuccessClosesBreaker ==
    [][\A c \in Callers :
         (pc[c] = "resetHeld" /\ pc'[c] # "resetHeld")
         => (failureCount' = 0 /\ ~circuitOpen')]_vars

\* C6 witness: a success has just been recorded on a breaker that was open
C6_Witness ==
    /\ lastOp = [op |-> "reset", wasOpen |-> TRUE]
    /\ failureCount = 0 /\ ~circuitOpen
    /\ \E c \in Callers : pc[c] = "done" /\ decoded[c] # NoDecoded

\* C7: a return with a non-nil error happens only after all
\* retry+1 attempts of the call failed, and it carries fallbackValue and the
\* error of the last failed attempt.
C7_ErrorOnlyOnExhaustion ==
    \A c \in Callers :
        (pc[c] = "done" /\ ret[c].err # NoError)
        => /\ attempts[c] = retry + 1
           /\ decoded[c] = NoDecoded
           /\ ret[c].value = FallbackValue
           /\ ret[c].err = lastFail[c]

\* C8: an attempt that ends in a transport error does not stop the call:
\* Fetch never panics, remembers the error and goes on to record the failure.
C8_TransportErrorRecorded ==
    \A c \in Callers :
        /\ pc[c] # "panicked"
        /\ (lastFail[c] \in TransportErrors /\ pc[c] \in {"incWait", "incHeld"})
           => lastErr[c] = lastFail[c]

\* C9: a response that was decoded and handed to the success path (breaker
\* reset, value returned with nil error) had a 2xx status and a USDBRL bid.
C9_InvalidResponseIsFailure ==
    \A c \in Callers :
        decoded[c] # NoDecoded
        => /\ decoded[c].status = 200
           /\ \E p \in decoded[c].pairs : p[1] = "USDBRL"

\* C10: an open breaker has failureCount >= failureThreshold; the breaker is
\* set open only in a step that brings the count to the threshold, the count
\* never drops while it stays open, and a step that closes it sets the count
\* to 0.
C10_OpenImpliesThreshold ==
    /\ [](circuitOpen => failureCount >= failureThreshold)
    /\ [][/\ (~circuitOpen /\ circuitOpen')
             => (failureCount' >= failureThreshold
                 /\ failureCount' = failureCount + 1)
          /\ (circuitOpen /\ circuitOpen') => failureCount' >= failureCount
          /\ (circuitOpen /\ ~circuitOpen') => failureCount' = 0]_vars

\* C10 witness: the breaker was closed by the cooldown test after having
\* been open beyond the threshold
C10_Witness ==
    /\ lastOp = [op |-> "cooldown", wasOpen |-> TRUE]
    /\ failureCount = 0 /\ ~circuitOpen

\* C11: the step that sets the breaker open also sets the breaker's timestamp
\* to the current time, so whenever the breaker is open the timestamp read by
\* the cooldown test is the time of the latest transition into the open state.
C11_TimestampSetAtOpening ==
    /\ [](circuitOpen => lastAttemptTime = openedAt)
    /\ [][(~circuitOpen /\ circuitOpen') => lastAttemptTime' = now]_vars

\* the step in which caller c reads or writes a breaker field: the tests of
\* lines 47 and 51, the bodies of incrementFailureCount and resetCircuit, and
\* the store of line 86
AccessesBreaker(c) ==
    /\ pc[c] \in {"check", "check2", "incHeld", "resetHeld", "writing"}
    /\ pc'[c] # pc[c]

\* C12: every step of a Fetch call that reads or writes failureCount,
\* circuitOpen or lastAttemptTime is taken while that call holds circuitMutex,
\* and no store to a breaker field is in progress while another caller is
\* inside its locked breaker check.
C12_BreakerAccessUnderMutex ==
    /\ [][\A c \in Callers : AccessesBreaker(c) => circuitMutex = c]_vars
    /\ [](\A c, d \in Callers :
            ~(pc[c] = "writing" /\ pc[d] \in {"check", "check2"}))

\* the positions of a caller between a Lock and the matching Unlock
LockedSections == {"check", "check2", "incHeld", "resetHeld"}

\* C13: a call that is building or has sent an upstream request does not hold
\* circuitMutex; the mutex is held only inside the breaker check,
\* incrementFailureCount and resetCircuit.
C13_NoLockAcrossRequest ==
    \A c \in Callers :
        /\ pc[c] \in {"request", "inflight"} => circuitMutex # c
        /\ circuitMutex = c => pc[c] \in LockedSections

\* C13 witness: while one caller's request is in flight another caller holds
\* the mutex and records a failure
C13_Witness ==
    \E c, d \in Callers :
        /\ pc[c] = "inflight"
        /\ pc[d] = "incHeld" /\ circuitMutex = d

\* the handler of caller c's request has written its response
Handled(c) == pc[c] = "done" /\ response[c] # NoResponse
\* Fetch returned a live upstream value to caller c
ProducedLive(c) == pc[c] = "done" /\ decoded[c] # NoDecoded
\* Fetch returned the fallback value to caller c, from the bypass or after
\* exhausting its attempts
ProducedFallback(c) ==
    /\ pc[c] = "done"
    /\ decoded[c] = NoDecoded
    /\ ret[c].value = FallbackValue

\* C14: Save is never invoked twice for a request, and once the handler has
\* answered a request whose Fetch produced a live value or the fallback value
\* (from the bypass or from exhausted attempts), Save has been invoked exactly
\* once, with the value Fetch produced.
C14_SaveOncePerFetch ==
    \A c \in Callers :
        /\ Len(saved[c]) <= 1
        /\ (Handled(c) /\ (ProducedLive(c) \/ ProducedFallback(c)))
           => /\ Len(saved[c]) = 1
              /\ saved[c][1].bid = ret[c].value

\* C15: the handler answers only after Fetch has returned and calls Save only
\* after a Fetch without error; it answers 200 with {"Cotacao": value}
\* exactly when Fetch and Save both returned nil, and when either returned an
\* error it answers 500 with a plain-text message, never the JSON body.
C15_SuccessBodyOnlyWithoutError ==
    \A c \in Callers :
        /\ saved[c] # <<>> => (pc[c] = "done" /\ ret[c].err = NoError)
        /\ response[c] # NoResponse
           => /\ pc[c] = "done"
              /\ response[c].status = StatusOK
                 <=> (/\ ret[c].err = NoError
                      /\ Len(saved[c]) = 1
                      /\ saved[c][1].err = NoError)
              /\ response[c].status = StatusOK
                 => response[c].body = <<"json", "Cotacao", ret[c].value>>
              /\ (\/ ret[c].err # NoError
                  \/ \E k \in 1 .. Len(saved[c]) : saved[c][k].err # NoError)
                 => /\ response[c].status = StatusInternalServerError
                    /\ response[c].body[1] = "text"

\* C15 witness: Fetch returned a live value, Save failed, and the handler
\* answered 500
C15_Witness ==
    \E c \in Callers :
        /\ pc[c] = "done" /\ ret[c] = [value |-> "5.43", err |-> NoError]
        /\ saved[c] = <<[bid |-> "5.43", err |-> PersistError]>>
        /\ response[c] =
              [status |-> StatusInternalServerError, body |-> SaveFailedBody]

\* the step in which the handler of caller c calls Save and Save returns
CallsSave(c) == Len(saved'[c]) = Len(saved[c]) + 1

\* C16: a call of Save, whether it returns nil or an error, leaves
\* failureCount, circuitOpen and lastAttemptTime as they were.
C16_SaveLeavesBreaker ==
    [][\A c \in Callers :
         CallsSave(c)
         => /\ failureCount' = failureCount
            /\ circuitOpen' = circuitOpen
            /\ lastAttemptTime' = lastAttemptTime]_vars

\* C16 witness: Save has failed on an instance that opens after one failure,
\* and the breaker is closed with no failure counted
C16_Witness ==
    /\ failureThreshold = 1
    /\ failureCount = 0 /\ ~circuitOpen
    /\ \E c \in Callers :
         /\ Len(saved[c]) = 1 /\ saved[c][1].err = PersistError
         /\ response[c].status = StatusInternalServerError

\* C17: with concurrent callers, a call that performs its breaker check while
\* the breaker is open and less than the cooldown has passed since it opened
\* is bypassed: it returns the fallback, has started no upstream attempt and
\* leaves the breaker open, also when the call that opened the breaker has not
\* yet finished.
C17_ConcurrentBypass ==
    [][\A c \in Callers :
         (/\ ChecksOpen(c)
          /\ circuitOpen
          /\ Since(openedAt) < circuitResetTime)
         => /\ pc'[c] = "done"
            /\ branch'[c] = "bypass"
            /\ ret'[c].value = FallbackValue
            /\ attempts'[c] = 0
            /\ circuitOpen']_vars

\* C18: failureCount is never negative, and whenever no call is under way it
\* equals the number of upstream attempts that failed (transport error,
\* non-2xx status, undecodable body or missing quote) since the last recorded
\* success or cooldown reset: no failed attempt is lost or counted twice.
C18_CountEqualsFailures ==
    /\ failureCount >= 0
    /\ Quiescent => failureCount = failedSince

\* the step in which caller c enters Fetch and takes the mutex
EntersFetch(c) == pc[c] # "check" /\ pc'[c] = "check"
\* the step in which caller c's breaker check ends in the bypass return
Bypasses(c) == ChecksOpen(c) /\ pc'[c] = "done"

\* C19: the steps of a bypassed call, its entry and its breaker check ending
\* in the return of line 50, leave failureCount, circuitOpen and
\* lastAttemptTime as they were: a bypassed call does not restart the cooldown.
C19_BypassLeavesBreaker ==
    [][\A c \in Callers :
         (EntersFetch(c) \/ Bypasses(c))
         => /\ failureCount' = failureCount
            /\ circuitOpen' = circuitOpen
            /\ lastAttemptTime' = lastAttemptTime]_vars

\* C19 witness: a call was bypassed one tick after the stamp of the last
\* exhausted call, and the stamp is still the old one
C19_Witness ==
    \E c \in Callers :
        /\ pc[c] = "done" /\ branch[c] = "bypass"
        /\ circuitOpen
        /\ lastAttemptTime # ZeroTime /\ lastAttemptTime < now

\* C20: a call never returns, and never starts an upstream request, with the
\* mutex held, and every call that has entered Fetch eventually returns, given
\* that every upstream call returns and the mutex is handed on fairly.
C20_EveryFetchReturns ==
    /\ [](\A c \in Callers :
            pc[c] \in {"request", "inflight", "done"} => circuitMutex # c)
    /\ \A c \in Callers : (pc[c] = "check") ~> (pc[c] = "done")

=============================================================================
